---- MODULE Spec2Model ----
(***************************************************************************)
(* Model of logarc-js (src/index.js): the LogArcService client.            *)
(*                                                                         *)
(* State: the outcome of the constructor, the fields it stores, one record *)
(* per logging call (the locals of the severity method, log and            *)
(* sendLogRequest and the position of the call), the requests handed to    *)
(* axios.post, the lines written with console.error and the rejections no  *)
(* one holds a handle to.                                                  *)
(***************************************************************************)
EXTENDS Integers, Sequences, FiniteSets, TLC

VARIABLES ctor, ctorArgs, ctorError, client, calls, requests, console, unhandled

vars == <<ctor, ctorArgs, ctorError, client, calls, requests, console, unhandled>>

-----------------------------------------------------------------------------
(* JavaScript values.  Every value that is not a number or an error object *)
(* is a string; undefined and null are the two tokens below.               *)

UNDEF == "undefined"
NULL == "null"

\* JS truthiness of the values that reach `!x` and `x || y` in the source.
Falsy(v) == v \in {UNDEF, NULL, ""}

\* `a || b`
Or(a, b) == IF Falsy(a) THEN b ELSE a

\* A default parameter (`x = d` in a parameter list): only undefined is replaced.
Default(v, d) == IF v = UNDEF THEN d ELSE v

-----------------------------------------------------------------------------
(* Error objects.                                                          *)

NoError == [name |-> "none", message |-> ""]

ProjectKeyNotFoundException ==
    [name |-> "ProjectKeyNotFoundException",
     message |-> "Project key not found in configuration."]

InvalidProjectKeyException ==
    [name |-> "InvalidProjectKeyException",
     message |-> "Invalid project key provided."]

\* `new Error(`Invalid environment: ${this.env}`)`
InvalidEnvironmentError(env) ==
    [name |-> "Error", message |-> "Invalid environment: " \o env]

AppEnv ==
    [Local |-> "local", DEVELOPMENT |-> "development",
     STAGING |-> "staging", PRODUCTION |-> "production"]

\* Object.values(AppEnv)
AppEnvValues == {AppEnv[k] : k \in DOMAIN AppEnv}

DefaultEndpoint == "https://logarc.com/api"
DefaultTimezone == "UTC"

-----------------------------------------------------------------------------
(* Construction.                                                           *)

NoClient ==
    [projectKey |-> UNDEF, endpoint |-> UNDEF, env |-> UNDEF,
     timezone |-> UNDEF, user |-> UNDEF]

\* getProjectKey: the error it throws, or NoError when it returns the key.
getProjectKeyThrows(config) ==
    IF Falsy(config.project_key) THEN ProjectKeyNotFoundException ELSE NoError

getProjectKey(config) == config.project_key

\* The fields the constructor assigns, in the order it assigns them.
ConstructorFields(config, user) ==
    [projectKey |-> getProjectKey(config),
     endpoint |-> Or(config.endpoint, DefaultEndpoint),
     env |-> Or(config.env, AppEnv.PRODUCTION),
     timezone |-> Or(config.timezone, DefaultTimezone),
     user |-> Default(user, NULL)]

\* Variant of ConstructorThrows that validates the environment before it
\* reads the project key.
ConstructorThrows_EnvFirst(config, user) ==
    IF Or(config.env, AppEnv.PRODUCTION) \notin AppEnvValues
    THEN InvalidEnvironmentError(Or(config.env, AppEnv.PRODUCTION))
    ELSE getProjectKeyThrows(config)

\* Variant of ConstructorThrows without the validation of the environment.
ConstructorThrows_NoEnvCheck(config, user) == getProjectKeyThrows(config)

\* The error `new LogArcService(config, user)` throws, or NoError.
ConstructorThrows(config, user) ==
    IF getProjectKeyThrows(config) # NoError
    THEN getProjectKeyThrows(config)
    ELSE IF ConstructorFields(config, user).env \notin AppEnvValues
         THEN InvalidEnvironmentError(ConstructorFields(config, user).env)
         ELSE NoError

Construct(config, user) ==
    /\ ctor = "new"
    /\ ctorArgs' = [config |-> config, user |-> user]
    /\ IF ConstructorThrows(config, user) # NoError
       THEN /\ ctor' = "threw"
            /\ ctorError' = ConstructorThrows(config, user)
            /\ client' = client
       ELSE /\ ctor' = "ok"
            /\ ctorError' = ctorError
            /\ client' = ConstructorFields(config, user)
    /\ UNCHANGED <<calls, requests, console, unhandled>>

-----------------------------------------------------------------------------
(* Caller metadata: `new Error().stack.split("\n")`, `stack[3] || ""` and  *)
(* the match against /at (.+?) \((.+?):(\d+):\d+\)/.  A stack line is a    *)
(* sequence of one-character strings.                                      *)

Digits == <<"0", "1", "2", "3", "4", "5", "6", "7", "8", "9">>

IsDigit(c) == \E k \in 1..Len(Digits) : Digits[k] = c

DigitValue(c) == (CHOOSE k \in 1..Len(Digits) : Digits[k] = c) - 1

\* The character at position k, or "" past either end of the line.
At(line, k) == IF k \in 1..Len(line) THEN line[k] ELSE ""

\* The last position of the run of digits that starts at k (k - 1 when
\* there is no digit at k): what a greedy \d+ consumes.
RECURSIVE DigitsEnd(_, _)
DigitsEnd(line, k) ==
    IF IsDigit(At(line, k)) THEN DigitsEnd(line, k + 1) ELSE k - 1

\* `:(\d+):\d+\)` matches starting at position k.
TailMatches(line, k) ==
    /\ At(line, k) = ":"
    /\ DigitsEnd(line, k + 1) >= k + 1
    /\ At(line, DigitsEnd(line, k + 1) + 1) = ":"
    /\ DigitsEnd(line, DigitsEnd(line, k + 1) + 2) >= DigitsEnd(line, k + 1) + 2
    /\ At(line, DigitsEnd(line, DigitsEnd(line, k + 1) + 2) + 1) = ")"

\* The matcher backtracks in this order: the leftmost start s of "at ", then
\* the shortest group 1 (s+3..a, lazy) that " (" follows, then the shortest
\* group 2 (a+3..b, lazy) that the tail follows.  Each scan yields <<s, a, b>>
\* of the first match it finds, or <<>>.
RECURSIVE ScanGroup2(_, _, _, _)
ScanGroup2(line, s, a, b) ==
    IF b > Len(line) THEN <<>>
    ELSE IF TailMatches(line, b + 1) THEN <<s, a, b>>
    ELSE ScanGroup2(line, s, a, b + 1)

RECURSIVE ScanGroup1(_, _, _)
ScanGroup1(line, s, a) ==
    IF a > Len(line) THEN <<>>
    ELSE LET rest == IF At(line, a + 1) = " " /\ At(line, a + 2) = "("
                     THEN ScanGroup2(line, s, a, a + 3)
                     ELSE <<>>
         IN IF rest # <<>> THEN rest ELSE ScanGroup1(line, s, a + 1)

RECURSIVE ScanStart(_, _)
ScanStart(line, s) ==
    IF s > Len(line) THEN <<>>
    ELSE LET rest == IF At(line, s) = "a" /\ At(line, s + 1) = "t"
                        /\ At(line, s + 2) = " "
                     THEN ScanGroup1(line, s, s + 3)
                     ELSE <<>>
         IN IF rest # <<>> THEN rest ELSE ScanStart(line, s + 1)

\* callerLine.match(...): <<>> for null, else <<group 1, group 3>>.
Match(line) ==
    LET m == ScanStart(line, 1)
    IN IF m = <<>>
       THEN <<>>
       ELSE <<SubSeq(line, m[1] + 3, m[2]),
              SubSeq(line, m[3] + 2, DigitsEnd(line, m[3] + 2))>>

\* The string a sequence of characters spells.
RECURSIVE Join(_)
Join(chars) == IF chars = <<>> THEN "" ELSE Head(chars) \o Join(Tail(chars))

\* parseInt(digits, 10) of a non-empty run of digits.
RECURSIVE parseInt(_)
parseInt(digits) ==
    IF digits = <<>>
    THEN 0
    ELSE 10 * parseInt(SubSeq(digits, 1, Len(digits) - 1))
         + DigitValue(digits[Len(digits)])

\* Variant of CallerLine that reads index 2, the frame of the severity method.
CallerLine_MethodFrame(stack) == IF Len(stack) >= 3 THEN stack[3] ELSE <<>>

\* `stack[3] || ""`: index 3 of a zero-based array of lines.
CallerLine(stack) == IF Len(stack) >= 4 THEN stack[4] ELSE <<>>

ClassName(callerLine) ==
    IF Match(callerLine) # <<>> THEN Join(Match(callerLine)[1]) ELSE "UnknownClass"

LineNumber(callerLine) ==
    IF Match(callerLine) # <<>> THEN parseInt(Match(callerLine)[2]) ELSE 0

-----------------------------------------------------------------------------
(* The payload.                                                            *)

\* Minutes east of UTC of the zones the model configures.
TzOffsetMinutes(timezone) == IF timezone = "Asia/Kathmandu" THEN 345 ELSE 0

Pad2(n) == Digits[(n \div 10) + 1] \o Digits[(n % 10) + 1]

\* moment().tz(timezone).format("YYYY-MM-DDTHH:mm:ss[Z]") at `now` minutes
\* past 1970-01-01T00:00 UTC: wall-clock time of the zone, then a literal Z.
FormatTimestamp(now, timezone) ==
    LET local == now + TzOffsetMinutes(timezone)
    IN "1970-01-" \o Pad2(1 + (local \div 1440)) \o "T"
       \o Pad2((local % 1440) \div 60) \o ":" \o Pad2(local % 60) \o ":00Z"

\* Variant of BuildLogData that sends the production environment whatever
\* the client was configured with.
BuildLogData_FixedEnv(self, level, message, data, callerLine, now) ==
    [project_key |-> self.projectKey,
     log_timestamp |-> FormatTimestamp(now, self.timezone),
     app_env |-> AppEnv.PRODUCTION,
     level |-> level,
     class_name |-> ClassName(callerLine),
     method_name |-> ClassName(callerLine),
     line_number |-> LineNumber(callerLine),
     message |-> message,
     data |-> data,
     user |-> Or(self.user, NULL)]

\* The object literal `logData` of log.
BuildLogData(self, level, message, data, callerLine, now) ==
    [project_key |-> self.projectKey,
     log_timestamp |-> FormatTimestamp(now, self.timezone),
     app_env |-> self.env,
     level |-> level,
     class_name |-> ClassName(callerLine),
     method_name |-> ClassName(callerLine),
     line_number |-> LineNumber(callerLine),
     message |-> message,
     data |-> data,
     user |-> Or(self.user, NULL)]

\* The JSON body axios sends: a property whose value is undefined is left out.
Serialize(logData) ==
    [f \in {g \in DOMAIN logData : g = "line_number" \/ logData[g] # UNDEF}
        |-> logData[f]]

\* Variant of MethodLevel in which notice passes the literal of info.
MethodLevel_NoticeAsInfo ==
    [debug |-> "debug", info |-> "info", error |-> "error", notice |-> "info",
     warning |-> "warning", critical |-> "critical", alert |-> "alert",
     emergency |-> "emergency"]

\* The level literal each severity method passes to log.
MethodLevel ==
    [debug |-> "debug", info |-> "info", error |-> "error", notice |-> "notice",
     warning |-> "warning", critical |-> "critical", alert |-> "alert",
     emergency |-> "emergency"]

Methods == DOMAIN MethodLevel

\* What a severity method hands back to its caller: its body is the bare
\* statement `this.log(...)`, so the promise of log is dropped.
SeverityReturn(logPromise) == UNDEF

-----------------------------------------------------------------------------
(* The transport.  An outcome is what axios.post settles with.             *)

UnprocessableEntity == 422

NoOutcome == [hasResponse |-> FALSE, status |-> 0, data |-> UNDEF, message |-> "pending"]

HttpOutcome(status, body) ==
    [hasResponse |-> TRUE, status |-> status, data |-> body,
     message |-> "Request failed with status code"]

NetworkOutcome(message) ==
    [hasResponse |-> FALSE, status |-> 0, data |-> UNDEF, message |-> message]

\* axios resolves the promise of a response whose status is 2xx.
Resolves(o) == o.hasResponse /\ o.status \in 200..299

\* The error axios rejects with otherwise; err.response is o when a response came.
AxiosError(o) == [name |-> "AxiosError", message |-> o.message, response |-> o]

-----------------------------------------------------------------------------
(* Logging calls.                                                          *)

IdleCall ==
    [pc |-> "idle", method |-> UNDEF, message |-> UNDEF, data |-> UNDEF,
     stack |-> <<>>, returned |-> UNDEF, outcome |-> NoOutcome,
     sendValue |-> UNDEF, sendError |-> NoError,
     logPromise |-> "none", logValue |-> UNDEF, logError |-> NoError]

\* Variant of PostRequest in which the calls of a client share one payload
\* object, so that a request sent while another exists carries the older body.
PostRequest_SharedBody(self, i, logData) ==
    [id |-> i, url |-> self.endpoint \o "/log", accept |-> "application/json",
     body |-> IF requests = <<>>
              THEN Serialize(logData)
              ELSE requests[Len(requests)].body]

\* The request sendLogRequest hands to axios.post.
PostRequest(self, i, logData) ==
    [id |-> i, url |-> self.endpoint \o "/log", accept |-> "application/json",
     body |-> Serialize(logData)]

\* The caller runs logger.<method>(m, d): the method, log up to its await and
\* sendLogRequest up to its await all run before the method returns.
Invoke(i, method, m, d, stack, now) ==
    /\ ctor = "ok"
    /\ calls[i].pc = "idle"
    /\ \A j \in DOMAIN calls : j < i => calls[j].pc # "idle"
    /\ LET message == Default(Default(m, NULL), NULL)
           data == Default(Default(d, NULL), NULL)
           callerLine == CallerLine(stack)
           logData == BuildLogData(client, MethodLevel[method], message, data,
                                   callerLine, now)
       IN /\ requests' = Append(requests, PostRequest(client, i, logData))
          /\ calls' = [calls EXCEPT ![i] =
                 [@ EXCEPT !.pc = "awaitPost", !.method = method,
                           !.message = m, !.data = d,
                           !.stack = stack,
                           !.logPromise = "pending",
                           !.returned = SeverityReturn("Promise")]]
    /\ UNCHANGED <<ctor, ctorArgs, ctorError, client, console, unhandled>>

\* Variant of SendReturnValue: the try block ends without a return.
SendReturnValue_Nothing(response) == UNDEF

\* The value sendLogRequest returns from its try block.
SendReturnValue(response) == response.data

\* axios.post resolves: `return response.data`.
PostResolves(i, o) ==
    /\ calls[i].pc = "awaitPost"
    /\ Resolves(o)
    /\ calls' = [calls EXCEPT ![i] =
           [@ EXCEPT !.pc = "sendReturned", !.outcome = o,
                     !.sendValue = SendReturnValue(o)]]
    /\ UNCHANGED <<ctor, ctorArgs, ctorError, client, requests, console, unhandled>>

\* Variant of CatchBranch without the test of the status against 422.
CatchBranch_No422(err) ==
    IF err.response.hasResponse THEN "status" ELSE "network"

\* The branch the catch block of sendLogRequest takes.
CatchBranch(err) ==
    IF err.response.hasResponse
    THEN IF err.response.status = UnprocessableEntity THEN "invalidKey" ELSE "status"
    ELSE "network"

\* The argument of console.error in each branch.
Diagnostic(i, err) ==
    IF CatchBranch(err) = "status"
    THEN [id |-> i, text |-> "LogArc request failed",
          status |-> err.response.status, body |-> err.response.data]
    ELSE [id |-> i, text |-> "LogArc request failed",
          message |-> err.message, stack |-> "stack of " \o err.name]

\* axios.post rejects: the catch block up to its last statement.
PostRejects(i, o) ==
    /\ calls[i].pc = "awaitPost"
    /\ ~Resolves(o)
    /\ IF CatchBranch(AxiosError(o)) = "invalidKey"
       THEN /\ calls' = [calls EXCEPT ![i] =
                   [@ EXCEPT !.pc = "sendThrew", !.outcome = o,
                             !.sendError = InvalidProjectKeyException]]
            /\ console' = console
       ELSE /\ calls' = [calls EXCEPT ![i] =
                   [@ EXCEPT !.pc = "rethrow", !.outcome = o]]
            /\ console' = Append(console, Diagnostic(i, AxiosError(o)))
    /\ UNCHANGED <<ctor, ctorArgs, ctorError, client, requests, unhandled>>

\* Variant of Rethrown: the catch block throws a new Error built from err.
Rethrown_Wrapped(err) == [name |-> "Error", message |-> err.message]

\* The error `throw err` raises at the end of the catch block.
Rethrown(err) == err

Rethrow(i) ==
    /\ calls[i].pc = "rethrow"
    /\ calls' = [calls EXCEPT ![i] =
           [@ EXCEPT !.pc = "sendThrew",
                     !.sendError = Rethrown(AxiosError(calls[i].outcome))]]
    /\ UNCHANGED <<ctor, ctorArgs, ctorError, client, requests, console, unhandled>>

\* The value log resolves with: it awaits sendLogRequest and returns nothing.
LogReturnValue(sendValue) == UNDEF

\* log resumes after `await this.sendLogRequest(logData)` and its promise settles.
LogSettles(i) ==
    /\ calls[i].pc \in {"sendReturned", "sendThrew"}
    /\ IF calls[i].pc = "sendReturned"
       THEN /\ calls' = [calls EXCEPT ![i] =
                   [@ EXCEPT !.pc = "done", !.logPromise = "fulfilled",
                             !.logValue = LogReturnValue(calls[i].sendValue)]]
            /\ unhandled' = unhandled
       ELSE /\ calls' = [calls EXCEPT ![i] =
                   [@ EXCEPT !.pc = "done", !.logPromise = "rejected",
                             !.logError = calls[i].sendError]]
            /\ unhandled' = IF calls[i].returned = "Promise"
                            THEN unhandled
                            ELSE unhandled \cup {i}
    /\ UNCHANGED <<ctor, ctorArgs, ctorError, client, requests, console>>

-----------------------------------------------------------------------------
(* Inputs.                                                                 *)

\* Calls one client receives under Spec / under SpecConcurrent.
MaxCalls == 1
MaxOverlap == 2

ProjectKeys == {UNDEF, "", "abc"}
Environments ==
    {UNDEF, "", "local", "development", "staging", "production", "testing",
     "Production"}
Endpoints == {UNDEF, "http://localhost:8000/api"}
Timezones == {UNDEF, "Asia/Kathmandu"}
Users == {UNDEF, NULL, "{id:1}"}

Configs(keys, envs, endpoints, timezones) ==
    [project_key : keys, env : envs, endpoint : endpoints, timezone : timezones]

\* Constructor arguments <<config, user>>: every key with every environment,
\* and a valid key with every endpoint, timezone and user.
Constructions ==
    (Configs(ProjectKeys, Environments, {UNDEF}, {UNDEF}) \X {UNDEF})
    \cup (Configs({"abc"}, {UNDEF}, Endpoints, Timezones) \X {UNDEF})
    \cup (Configs({"abc"}, {UNDEF}, {UNDEF}, {UNDEF}) \X Users)

\* Arguments of a severity method: <<message, data>>, undefined when omitted.
Arguments == {<<UNDEF, UNDEF>>, <<"hello", UNDEF>>, <<"hello", "{a:1}">>}

ErrorLine == <<"E", "r", "r", "o", "r">>
LogFrame == <<"a", "t", " ", "L", ".", "l", "o", "g", " ", "(", "i", ":", "1", "3", "1", ":", "1", "9", ")">>
MethodFrame == <<"a", "t", " ", "L", ".", "i", "n", "f", "o", " ", "(", "i", ":", "8", "1", ":", "1", "0", ")">>
\* "  at main (a.js:12:3)"
NamedFrame == <<" ", " ", "a", "t", " ", "m", "a", "i", "n", " ", "(", "a", ".", "j", "s", ":", "1", "2", ":", "3", ")">>
\* "  at a.js:12:3": a caller at the top level of a module has no parentheses
AnonymousFrame == <<" ", " ", "a", "t", " ", "a", ".", "j", "s", ":", "1", "2", ":", "3">>
\* "  at async run (b.js:305:7)"
AsyncFrame == <<" ", " ", "a", "t", " ", "a", "s", "y", "n", "c", " ", "r", "u", "n", " ", "(", "b", ".", "j", "s", ":", "3", "0", "5", ":", "7", ")">>

\* Captured stacks: cut short by Error.stackTraceLimit, or with a caller frame.
ShortStack == <<ErrorLine, LogFrame, MethodFrame>>
NamedStack == <<ErrorLine, LogFrame, MethodFrame, NamedFrame>>
Stacks ==
    {ShortStack,
     <<ErrorLine, LogFrame, MethodFrame, AnonymousFrame>>,
     NamedStack,
     <<ErrorLine, LogFrame, MethodFrame, AsyncFrame, NamedFrame>>}

\* Minutes past 1970-01-01T00:00 UTC at which calls are made.
Clocks == {1200}

Outcomes ==
    {HttpOutcome(200, "{ok:true}"), HttpOutcome(UnprocessableEntity, "{errors}"),
     HttpOutcome(500, "oops"), NetworkOutcome("connect ECONNREFUSED")}

-----------------------------------------------------------------------------
(* Spec: one client of the default configuration; every severity method    *)
(* with every argument list, and every stack shape, under every transport  *)
(* outcome.                                                                *)

InitCalls(n) ==
    /\ ctor = "new"
    /\ ctorArgs = [config |-> [project_key |-> UNDEF, env |-> UNDEF,
                               endpoint |-> UNDEF, timezone |-> UNDEF],
                   user |-> UNDEF]
    /\ ctorError = NoError
    /\ client = NoClient
    /\ calls = [i \in 1..n |-> IdleCall]
    /\ requests = <<>>
    /\ console = <<>>
    /\ unhandled = {}

Init == InitCalls(MaxCalls)

Next ==
    \/ \E config \in Configs({UNDEF, "abc"}, {UNDEF, "testing"}, {UNDEF}, {UNDEF}) :
          Construct(config, UNDEF)
    \/ \E i \in DOMAIN calls, method \in Methods, a \in Arguments, now \in Clocks :
          Invoke(i, method, a[1], a[2], NamedStack, now)
    \/ \E i \in DOMAIN calls, stack \in Stacks, now \in Clocks :
          Invoke(i, "info", "hello", UNDEF, stack, now)
    \/ \E i \in DOMAIN calls, o \in Outcomes : PostResolves(i, o)
    \/ \E i \in DOMAIN calls, o \in Outcomes : PostRejects(i, o)
    \/ \E i \in DOMAIN calls : Rethrow(i)
    \/ \E i \in DOMAIN calls : LogSettles(i)

Spec == Init /\ [][Next]_vars

(* SpecConcurrent: every configuration and user, and calls that overlap.   *)

InitConcurrent == InitCalls(MaxOverlap)

NextConcurrent ==
    \/ \E c \in Constructions : Construct(c[1], c[2])
    \/ \E i \in DOMAIN calls, now \in Clocks :
          \/ Invoke(i, "info", UNDEF, UNDEF, ShortStack, now)
          \/ Invoke(i, "error", "hello", "{a:1}", NamedStack, now)
    \/ \E i \in DOMAIN calls, o \in Outcomes : PostResolves(i, o)
    \/ \E i \in DOMAIN calls, o \in Outcomes : PostRejects(i, o)
    \/ \E i \in DOMAIN calls : Rethrow(i)
    \/ \E i \in DOMAIN calls : LogSettles(i)

SpecConcurrent == InitConcurrent /\ [][NextConcurrent]_vars

-----------------------------------------------------------------------------
(* Properties.                                                             *)

\* Entries of a sequence of records that carry call i's id.
EntriesOf(seq, i) == {k \in 1..Len(seq) : seq[k].id = i}

Constructed == ctor # "new"

\* C1: a configuration whose project key is absent or empty, whatever its
\* other fields, makes construction fail with ProjectKeyNotFoundException;
\* no client is produced and no request is issued.
C1_MissingKeyFails ==
    (Constructed /\ ctorArgs.config.project_key \in {UNDEF, ""})
        => /\ ctor = "threw"
           /\ ctorError = ProjectKeyNotFoundException
           /\ client = NoClient
           /\ requests = <<>>
           /\ \A i \in DOMAIN calls : calls[i].pc = "idle"

\* C1 witness: construction failed on an empty key with an unrecognised environment.
C1_Witness ==
    /\ ctor = "threw"
    /\ ctorArgs.config.project_key = ""
    /\ ctorArgs.config.env = "testing"
    /\ ctorError.name = "ProjectKeyNotFoundException"

\* C2 as stated: a configuration with a project key whose environment is
\* present and not one of the four values makes construction fail with a typed
\* error that is neither a generic Error nor one of the credential errors.
C2_TypedConfigurationError ==
    (/\ Constructed
     /\ ~Falsy(ctorArgs.config.project_key)
     /\ ctorArgs.config.env # UNDEF
     /\ ctorArgs.config.env \notin {"local", "development", "staging", "production"})
        => /\ ctor = "threw"
           /\ ctorError.name \notin {"none", "Error", "ProjectKeyNotFoundException",
                                     "InvalidProjectKeyException"}
           /\ requests = <<>>

\* C2 amended: with a project key, a non-empty environment that is not one
\* of the four values makes construction fail with a plain Error whose message
\* is "Invalid environment: <value>", and no request is issued; an empty
\* environment counts as absent and the client is built for production.
C2_InvalidEnvironmentFails ==
    /\ (/\ Constructed
        /\ ~Falsy(ctorArgs.config.project_key)
        /\ ctorArgs.config.env \notin {UNDEF, ""}
        /\ ctorArgs.config.env \notin {"local", "development", "staging", "production"})
           => /\ ctor = "threw"
              /\ ctorError = [name |-> "Error",
                              message |-> "Invalid environment: " \o ctorArgs.config.env]
              /\ client = NoClient
              /\ requests = <<>>
    /\ (/\ Constructed
        /\ ~Falsy(ctorArgs.config.project_key)
        /\ ctorArgs.config.env \in {UNDEF, ""})
           => /\ ctor = "ok"
              /\ client.env = "production"

\* C2 witness: construction failed on the environment "testing".
C2_Witness ==
    /\ ctor = "threw"
    /\ ctorArgs.config.project_key = "abc"
    /\ ctorArgs.config.env = "testing"
    /\ ctorError.name = "Error"

\* The value a parameter that defaults to null holds for an argument.
Passed(arg) == IF arg = UNDEF THEN NULL ELSE arg

Is422(o) == o.hasResponse /\ o.status = 422
IsSuccess(o) == o.hasResponse /\ o.status >= 200 /\ o.status < 300

\* Call i has received the outcome of its request.
Answered(i) == calls[i].pc \in {"sendReturned", "rethrow", "sendThrew", "done"}

\* C3: a call of a severity method issues exactly one request, whatever the
\* server answers and however far the call has got; its level is the name of
\* the method and its message and data are the arguments, null when omitted.
C3_OneRequestPerCall ==
    \A i \in DOMAIN calls :
        IF calls[i].pc = "idle"
        THEN EntriesOf(requests, i) = {}
        ELSE /\ Cardinality(EntriesOf(requests, i)) = 1
             /\ \A k \in EntriesOf(requests, i) :
                    /\ {"level", "message", "data"} \subseteq DOMAIN requests[k].body
                    /\ requests[k].body.level = calls[i].method
                    /\ requests[k].body.message = Passed(calls[i].message)
                    /\ requests[k].body.data = Passed(calls[i].data)

\* C3 witness: notice() without arguments has failed on a 500 and one request
\* with level notice and null message and data went out.
C3_Witness ==
    \E i \in DOMAIN calls :
        /\ calls[i].pc = "done"
        /\ calls[i].method = "notice"
        /\ calls[i].message = UNDEF /\ calls[i].data = UNDEF
        /\ calls[i].outcome.status = 500
        /\ calls[i].logPromise = "rejected"
        /\ Len(requests) = 1
        /\ requests[1].body.level = "notice"
        /\ requests[1].body.message = NULL

\* C4: when the request of a call fails, the caller of the severity method
\* holds a promise that rejects; the rejection is not left without a handler.
C4_FailureReachesCaller ==
    \A i \in DOMAIN calls :
        calls[i].logPromise = "rejected"
            => calls[i].returned = "Promise" /\ i \notin unhandled

\* C5: a 422 answer makes the call fail with InvalidProjectKeyException, not
\* with the error of the transport, and writes no diagnostic entry.
C5_InvalidKeyOn422 ==
    \A i \in DOMAIN calls :
        (Answered(i) /\ Is422(calls[i].outcome))
            => /\ calls[i].pc \in {"sendThrew", "done"}
               /\ calls[i].sendError = InvalidProjectKeyException
               /\ calls[i].sendError # AxiosError(calls[i].outcome)
               /\ EntriesOf(console, i) = {}
               /\ calls[i].pc = "done"
                     => /\ calls[i].logPromise = "rejected"
                        /\ calls[i].logError = InvalidProjectKeyException

\* C5 witness: a call has been rejected with InvalidProjectKeyException after a 422.
C5_Witness ==
    \E i \in DOMAIN calls :
        /\ calls[i].pc = "done"
        /\ calls[i].outcome.status = 422
        /\ calls[i].logError.name = "InvalidProjectKeyException"
        /\ console = <<>>

\* C6: after an error status other than 422, or no response, one diagnostic
\* entry of the call exists while the call has not rejected yet, it stays the
\* only one, and the call rejects with the error axios raised.
C6_DiagnosticThenOriginalError ==
    \A i \in DOMAIN calls :
        /\ calls[i].pc \in {"idle", "awaitPost"} => EntriesOf(console, i) = {}
        /\ (Answered(i) /\ ~IsSuccess(calls[i].outcome) /\ ~Is422(calls[i].outcome))
              => /\ Cardinality(EntriesOf(console, i)) = 1
                 /\ \A k \in EntriesOf(console, i) :
                        IF calls[i].outcome.hasResponse
                        THEN /\ console[k].status = calls[i].outcome.status
                             /\ console[k].body = calls[i].outcome.data
                        ELSE console[k].message = calls[i].outcome.message
                 /\ calls[i].pc = "rethrow"
                       => /\ calls[i].logPromise = "pending"
                          /\ calls[i].sendError = NoError
                 /\ calls[i].pc \in {"sendThrew", "done"}
                       => calls[i].sendError =
                              [name |-> "AxiosError",
                               message |-> calls[i].outcome.message,
                               response |-> calls[i].outcome]
                 /\ calls[i].pc = "done"
                       => /\ calls[i].logPromise = "rejected"
                          /\ calls[i].logError = calls[i].sendError

\* C6 witness: a call has been rejected with the network error after its
\* diagnostic entry was written.
C6_Witness ==
    \E i \in DOMAIN calls :
        /\ calls[i].pc = "done"
        /\ ~calls[i].outcome.hasResponse
        /\ calls[i].logPromise = "rejected"
        /\ calls[i].logError.name = "AxiosError"
        /\ Len(console) = 1
        /\ console[1].message = "connect ECONNREFUSED"

\* C7 as stated: after a 2xx answer the severity method hands its caller a
\* promise that resolves with the body of the response, and no diagnostic
\* entry is written.
C7_MethodResolvesWithBody ==
    \A i \in DOMAIN calls :
        (calls[i].pc = "done" /\ IsSuccess(calls[i].outcome))
            => /\ calls[i].returned = "Promise"
               /\ calls[i].logPromise = "fulfilled"
               /\ calls[i].logValue = calls[i].outcome.data
               /\ EntriesOf(console, i) = {}

\* C7 amended: after a 2xx answer sendLogRequest resolves with the body of the
\* response and no diagnostic entry is written; log resolves with undefined
\* and the severity method has returned undefined to its caller.
C7_SendResolvesWithBody ==
    \A i \in DOMAIN calls :
        (Answered(i) /\ IsSuccess(calls[i].outcome))
            => /\ calls[i].pc \in {"sendReturned", "done"}
               /\ calls[i].sendValue = calls[i].outcome.data
               /\ calls[i].sendError = NoError
               /\ EntriesOf(console, i) = {}
               /\ calls[i].returned = UNDEF
               /\ calls[i].pc = "done"
                     => /\ calls[i].logPromise = "fulfilled"
                        /\ calls[i].logValue = UNDEF

\* C7 witness: a call is done after a 200 whose body sendLogRequest returned.
C7_Witness ==
    \E i \in DOMAIN calls :
        /\ calls[i].pc = "done"
        /\ calls[i].outcome.status = 200
        /\ calls[i].sendValue = "{ok:true}"
        /\ calls[i].logPromise = "fulfilled"

\* The fourth line of the stack call i captured, <<>> when it has fewer.
FourthLine(i) ==
    IF Len(calls[i].stack) >= 4 THEN calls[i].stack[4] ELSE <<>>

\* C10: whatever the captured stack, the request is sent; a caller line that
\* is missing or has no "name (file:line:col)" part gives class_name
\* "UnknownClass" and line_number 0, one that has it gives its name and line,
\* and method_name always equals class_name.
C10_CallerMetadataNeverFails ==
    \A i \in DOMAIN calls :
        calls[i].pc # "idle"
            => /\ Cardinality(EntriesOf(requests, i)) = 1
               /\ \A k \in EntriesOf(requests, i) :
                      /\ {"class_name", "method_name", "line_number"}
                            \subseteq DOMAIN requests[k].body
                      /\ requests[k].body.method_name = requests[k].body.class_name
                      /\ (Len(calls[i].stack) < 4 \/ FourthLine(i) = AnonymousFrame)
                            => /\ requests[k].body.class_name = "UnknownClass"
                               /\ requests[k].body.line_number = 0
                      /\ FourthLine(i) = NamedFrame
                            => /\ requests[k].body.class_name = "main"
                               /\ requests[k].body.line_number = 12
                      /\ FourthLine(i) = AsyncFrame
                            => /\ requests[k].body.class_name = "async run"
                               /\ requests[k].body.line_number = 305

\* C10 witness: a call made from a frame without parentheses has sent its
\* request with the sentinel values.
C10_Witness ==
    \E i \in DOMAIN calls :
        /\ calls[i].pc = "awaitPost"
        /\ Len(calls[i].stack) = 4
        /\ calls[i].stack[4] = AnonymousFrame
        /\ Len(requests) = 1
        /\ requests[1].body.class_name = "UnknownClass"
        /\ requests[1].body.line_number = 0

WireFields ==
    {"project_key", "log_timestamp", "app_env", "level", "class_name",
     "method_name", "line_number", "message", "data", "user"}

\* C8: every request sent carries all ten wire fields, with the project key,
\* the environment (production when none was given) and the user (null when
\* none was given) of the construction; the fields the client stores stay
\* those of the construction whatever calls were made.
C8_PayloadCarriesConfiguration ==
    /\ requests # <<>> => ctor = "ok"
    /\ \A k \in 1..Len(requests) :
           /\ DOMAIN requests[k].body = WireFields
           /\ requests[k].body.project_key = ctorArgs.config.project_key
           /\ requests[k].body.app_env =
                  IF ctorArgs.config.env \in {UNDEF, ""}
                  THEN "production" ELSE ctorArgs.config.env
           /\ requests[k].body.user =
                  IF ctorArgs.user = UNDEF THEN NULL ELSE ctorArgs.user
    /\ ctor = "ok"
          => client =
                [projectKey |-> ctorArgs.config.project_key,
                 endpoint |-> IF ctorArgs.config.endpoint = UNDEF
                              THEN "https://logarc.com/api"
                              ELSE ctorArgs.config.endpoint,
                 env |-> IF ctorArgs.config.env \in {UNDEF, ""}
                         THEN "production" ELSE ctorArgs.config.env,
                 timezone |-> IF ctorArgs.config.timezone = UNDEF
                              THEN "UTC" ELSE ctorArgs.config.timezone,
                 user |-> IF ctorArgs.user = UNDEF THEN NULL ELSE ctorArgs.user]

\* C8 witness: a client built without environment and user sends its second
\* request, after a first call that failed, for production and a null user.
C8_Witness ==
    /\ ctorArgs.config.env = UNDEF
    /\ ctorArgs.user = UNDEF
    /\ calls[1].pc = "done"
    /\ calls[1].logPromise = "rejected"
    /\ Len(requests) = 2
    /\ requests[2].body.app_env = "production"
    /\ requests[2].body.user = NULL
    /\ requests[2].body.project_key = "abc"

\* Calls that have written a diagnostic entry.
Diagnosed ==
    {i \in DOMAIN calls :
        Answered(i) /\ ~IsSuccess(calls[i].outcome) /\ ~Is422(calls[i].outcome)}

\* C9: with calls that overlap, each call has its own request, built from
\* its own arguments, and a finished call resolved or rejected by the answer
\* to its own request alone, however the other calls have fared; the requests
\* are as many as the calls made and the diagnostic entries as many as the
\* calls that failed otherwise than on a 422.
C9_CallsAreIndependent ==
    /\ Len(requests) = Cardinality({i \in DOMAIN calls : calls[i].pc # "idle"})
    /\ Len(console) = Cardinality(Diagnosed)
    /\ \A i \in DOMAIN calls :
           calls[i].pc # "idle"
               => /\ requests[i].id = i
                  /\ requests[i].body.level = calls[i].method
                  /\ requests[i].body.message = Passed(calls[i].message)
                  /\ requests[i].body.data = Passed(calls[i].data)
    /\ \A i \in DOMAIN calls :
           calls[i].pc = "done"
               => IF IsSuccess(calls[i].outcome)
                  THEN calls[i].logPromise = "fulfilled"
                  ELSE /\ calls[i].logPromise = "rejected"
                       /\ calls[i].logError.name =
                              IF Is422(calls[i].outcome)
                              THEN "InvalidProjectKeyException" ELSE "AxiosError"
                       /\ ~Is422(calls[i].outcome)
                             => calls[i].logError.response = calls[i].outcome

\* C9 witness: the second call has failed on a 500 while the first, made
\* earlier, has its 200 but has not settled yet.
C9_Witness ==
    /\ calls[1].pc = "sendReturned"
    /\ calls[1].outcome.status = 200
    /\ calls[2].pc = "done"
    /\ calls[2].outcome.status = 500
    /\ calls[2].logPromise = "rejected"
    /\ calls[1].method # calls[2].method

====
